---- MODULE Spec2Model ----
(***************************************************************************)
(* The GUI bridge of screencontrol_tray.py: the HTTP server on the         *)
(* loopback port (GUIBridgeServer / GUIBridgeHandler) and the adapter it   *)
(* drives (ScreenController), which shells out to xdotool, wmctrl, scrot,  *)
(* grim and gnome-screenshot.                                              *)
(*                                                                         *)
(* One request is followed from accept to response.  Every subprocess.run  *)
(* of the adapter is two steps, Spawn (the process is started, or cannot   *)
(* be) and an Exit action (the process returns), so that the states in     *)
(* which a request waits for its backend are states of the model.  The     *)
(* tray's liveness poll (update_status) runs beside it.                    *)
(***************************************************************************)
EXTENDS Integers, Sequences, FiniteSets, TLC

\* ------------------------------------------------------------------ bounds
\* Connections that may wait in the listen backlog.
MaxBacklog == 1
\* Temporary capture files that may be left behind before captures stop
\* being accepted (keeps the state space finite).
MaxLeaked == 1

\* --------------------------------------------------------- program constants
DefaultAmount == 3
DefaultQuality == 80

\* -------------------------------------------------------------- JSON values
\* A JSON value as json.loads returns it; JAbsent marks a key that is not in
\* the dict.
JAbsent == [t |-> "absent", n |-> 0, s |-> ""]
JNull == [t |-> "null", n |-> 0, s |-> ""]
JList == [t |-> "list", n |-> 0, s |-> ""]
JInt(n) == [t |-> "int", n |-> n, s |-> ""]
JStr(s) == [t |-> "str", n |-> 0, s |-> s]

Keys ==
    {"x", "y", "button", "direction", "amount", "startX", "startY",
     "endX", "endY", "text", "key", "windowId"}

EmptyDict == [k \in Keys |-> JAbsent]

\* The dict with the fields of record f and no other.
Obj(f) == [k \in Keys |-> IF k \in DOMAIN f THEN f[k] ELSE JAbsent]

\* dict.get(key, default)
Get(obj, key, default) ==
    IF obj[key].t = "absent" THEN default ELSE obj[key]

\* str(n) of an integer: its decimal numeral.
Digit == <<"0", "1", "2", "3", "4", "5", "6", "7", "8", "9">>

RECURSIVE Decimal(_)
Decimal(n) ==
    IF n < 0 THEN "-" \o Decimal(0 - n)
    ELSE IF n < 10 THEN Digit[n + 1]
    ELSE Decimal(n \div 10) \o Digit[(n % 10) + 1]

\* The integers whose numerals the requests of the model carry.
NumRange == -9 .. 99

\* int(v): an int is itself, a numeral string its value; any other string
\* raises ValueError, None and a list raise TypeError.
CanInt(v) ==
    \/ v.t = "int"
    \/ v.t = "str" /\ \E n \in NumRange : Decimal(n) = v.s

IntVal(v) ==
    IF v.t = "int" THEN v.n ELSE CHOOSE n \in NumRange : Decimal(n) = v.s

\* str(v)
Str(v) ==
    CASE v.t = "int" -> Decimal(v.n)
      [] v.t = "str" -> v.s
      [] v.t = "null" -> "None"
      [] OTHER -> "[]"

\* hash(v) succeeds: a list is unhashable.
Hashable(v) == v.t # "list"

\* str.lower() on the tokens of the model.
LowerTable ==
    [s \in {"", "enter", "ENTER", "Esc", "F5", "a", "A", "PageDown", "Tab",
            "space", "ctrl+c", "jpeg", "JPEG", "png", "bmp", "true", "TRUE",
            "false"} |->
        CASE s = "ENTER" -> "enter"
          [] s = "Esc" -> "esc"
          [] s = "F5" -> "f5"
          [] s = "A" -> "a"
          [] s = "PageDown" -> "pagedown"
          [] s = "Tab" -> "tab"
          [] s = "JPEG" -> "jpeg"
          [] s = "TRUE" -> "true"
          [] OTHER -> s]

Lower(s) == LowerTable[s]

\* ----------------------------------------------------------------- commands
\* One argv handed to subprocess.run.  x, y are the integers whose numerals
\* the argv carries; rep is the --repeat argument ("" when there is none);
\* out is what became of the call: running, ok (exit 0), fail (exit non-zero)
\* or missing (the tool is not installed: FileNotFoundError).
Cmd(tool, verb) ==
    [tool |-> tool, verb |-> verb, x |-> 0, y |-> 0, btn |-> "", rep |-> "",
     arg |-> "", out |-> "new"]

Warp(x, y) == [Cmd("xdotool", "mousemove") EXCEPT !.x = x, !.y = y]
ClickCmd(btn, rep) == [Cmd("xdotool", "click") EXCEPT !.btn = btn, !.rep = rep]
MouseDown == [Cmd("xdotool", "mousedown") EXCEPT !.btn = "1"]
MouseUp == [Cmd("xdotool", "mouseup") EXCEPT !.btn = "1"]
TypeCmd(text) == [Cmd("xdotool", "type") EXCEPT !.arg = text]
KeyCmd(key) == [Cmd("xdotool", "key") EXCEPT !.arg = key]
GetLocCmd == Cmd("xdotool", "getmouselocation")
ListCmd == Cmd("wmctrl", "-l")
FocusCmd(id) == [Cmd("wmctrl", "-a") EXCEPT !.arg = id]
GrimCmd == Cmd("grim", "")
GnomeCmd == Cmd("gnome-screenshot", "-f")
ScrotCmd == Cmd("scrot", "-o")

\* A step of an adapter operation: a command to run, or an exception raised
\* while its argv is being built.
CmdStep(c) == [raise |-> FALSE, exc |-> "", cmd |-> c]
RaiseStep(e) == [raise |-> TRUE, exc |-> e, cmd |-> Cmd("", "")]

\* ['xdotool', 'mousemove', str(int(x)), str(int(y))]
WarpStep(x, y) ==
    IF CanInt(x) /\ CanInt(y)
    THEN CmdStep(Warp(IntVal(x), IntVal(y)))
    ELSE RaiseStep("ValueError")

\* -------------------------------------------------- ScreenController: input
\* The warp issued with its two coordinates the other way round.
MoveMouseSwapped(x, y) == <<WarpStep(y, x)>>

MoveMousePlan(x, y) == <<WarpStep(x, y)>>

\* {'left': '1', 'right': '3', 'middle': '2'}.get(button, '1')
ButtonIndex(button) ==
    CASE button = JStr("left") -> "1"
      [] button = JStr("right") -> "3"
      [] button = JStr("middle") -> "2"
      [] OTHER -> "1"

\* The click made where the pointer happens to be.
ClickWithoutWarp(x, y, button) ==
    IF ~Hashable(button)
    THEN <<RaiseStep("TypeError")>>
    ELSE <<CmdStep(ClickCmd(ButtonIndex(button), ""))>>

ClickPlan(x, y, button) ==
    IF ~Hashable(button)
    THEN <<RaiseStep("TypeError")>>
    ELSE <<WarpStep(x, y), CmdStep(ClickCmd(ButtonIndex(button), ""))>>

\* A double click made of two single clicks, each with its own warp.
DoubleClickAsTwoClicks(x, y) ==
    ClickPlan(x, y, JStr("left")) \o ClickPlan(x, y, JStr("left"))

DoubleClickPlan(x, y) == <<WarpStep(x, y), CmdStep(ClickCmd("1", "2"))>>

ScrollPlan(direction, amount) ==
    <<CmdStep(ClickCmd(IF direction = JStr("down") THEN "5" ELSE "4",
                       Str(amount)))>>

\* A drag that moves through the midpoint of its two ends.
DragThroughMidpoint(sx, sy, ex, ey) ==
    <<WarpStep(sx, sy), CmdStep(MouseDown), WarpStep(sx, ey),
      WarpStep(ex, ey), CmdStep(MouseUp)>>

DragPlan(sx, sy, ex, ey) ==
    <<WarpStep(sx, sy), CmdStep(MouseDown), WarpStep(ex, ey),
      CmdStep(MouseUp)>>

TypeTextPlan(text) ==
    IF text.t = "str" THEN <<CmdStep(TypeCmd(text.s))>>
    ELSE <<RaiseStep("TypeError")>>

KeyMap ==
    [k \in {"enter", "return", "tab", "escape", "esc", "backspace", "delete",
            "space", "up", "down", "left", "right", "home", "end", "pageup",
            "pagedown"} |->
        CASE k = "enter" -> "Return"
          [] k = "return" -> "Return"
          [] k = "tab" -> "Tab"
          [] k = "escape" -> "Escape"
          [] k = "esc" -> "Escape"
          [] k = "backspace" -> "BackSpace"
          [] k = "delete" -> "Delete"
          [] k = "space" -> "space"
          [] k = "up" -> "Up"
          [] k = "down" -> "Down"
          [] k = "left" -> "Left"
          [] k = "right" -> "Right"
          [] k = "home" -> "Home"
          [] k = "end" -> "End"
          [] k = "pageup" -> "Page_Up"
          [] OTHER -> "Page_Down"]

\* key_map.get(key, key): the table looked up with the token as it is.
XdoKeyCaseSensitive(key) ==
    IF key \in DOMAIN KeyMap THEN KeyMap[key] ELSE key

\* key_map.get(key.lower(), key)
XdoKey(key) ==
    IF Lower(key) \in DOMAIN KeyMap THEN KeyMap[Lower(key)] ELSE key

PressKeyPlan(key) ==
    IF key.t = "str" THEN <<CmdStep(KeyCmd(XdoKey(key.s)))>>
    ELSE <<RaiseStep("AttributeError")>>

FocusWindowPlan(id) ==
    IF id.t = "str" THEN <<CmdStep(FocusCmd(id.s))>>
    ELSE <<RaiseStep("TypeError")>>

InputOps ==
    {"click", "double_click", "move_mouse", "scroll", "drag", "type_text",
     "press_key", "focus_window"}

\* An adapter call: the operation and its arguments.
NoCall == [op |-> "none", args |-> <<>>]
Call(op, args) == [op |-> op, args |-> args]

PlanOf(c) ==
    CASE c.op = "click" -> ClickPlan(c.args[1], c.args[2], c.args[3])
      [] c.op = "double_click" -> DoubleClickPlan(c.args[1], c.args[2])
      [] c.op = "move_mouse" -> MoveMousePlan(c.args[1], c.args[2])
      [] c.op = "scroll" -> ScrollPlan(c.args[1], c.args[2])
      [] c.op = "drag" ->
            DragPlan(c.args[1], c.args[2], c.args[3], c.args[4])
      [] c.op = "type_text" -> TypeTextPlan(c.args[1])
      [] c.op = "press_key" -> PressKeyPlan(c.args[1])
      [] c.op = "focus_window" -> FocusWindowPlan(c.args[1])
      [] c.op = "get_mouse_position" -> <<CmdStep(GetLocCmd)>>
      [] c.op = "get_windows" -> <<CmdStep(ListCmd)>>
      [] OTHER -> <<>>

\* -------------------------------------------------------------- HTTP layer
ACAO == "Access-Control-Allow-Origin: *"
ACAM == "Access-Control-Allow-Methods: GET, POST, OPTIONS"
ACAH == "Access-Control-Allow-Headers: Content-Type"

\* A response: the status line, the headers and what the body holds.
NoResp ==
    [x |-> 0, y |-> 0, status |-> 0, ctype |-> "", kind |-> "none",
     error |-> "", success |-> FALSE, fmt |-> "", bytes |-> "",
     windows |-> <<>>, headers |-> {}]

ErrorBody(msg) == [NoResp EXCEPT !.kind = "error", !.error = msg]
SuccessBody(ok) == [NoResp EXCEPT !.kind = "success", !.success = ok]
HealthBody == [NoResp EXCEPT !.kind = "health"]
PositionBody(px, py) ==
    [NoResp EXCEPT !.kind = "position", !.success = TRUE, !.x = px, !.y = py]
WindowsBody(ws) ==
    [NoResp EXCEPT !.kind = "windows", !.success = TRUE, !.windows = ws]
EnvelopeBody(fmt, data) ==
    [NoResp EXCEPT !.kind = "envelope", !.success = TRUE, !.fmt = fmt,
                   !.bytes = data]

SendJson(data, status) ==
    [data EXCEPT !.status = status, !.ctype = "application/json",
                 !.headers = {ACAO}]

SendImage(data, content_type) ==
    [NoResp EXCEPT !.status = 200, !.kind = "image", !.bytes = data,
                   !.ctype = content_type, !.headers = {ACAO}]

OptionsResp ==
    [NoResp EXCEPT !.status = 200, !.kind = "empty",
                   !.headers = {ACAO, ACAM, ACAH}]

\* A method the handler class has no do_<METHOD> for: the base class
\* answers 501 with its own error page.
UnsupportedResp ==
    [NoResp EXCEPT !.status = 501, !.kind = "html",
                   !.ctype = "text/html;charset=utf-8",
                   !.error = "Unsupported method"]

\* Request bodies: no body (Content-Length 0 or absent), text that is not
\* JSON, a JSON array, a JSON object.
EmptyBody == [kind |-> "empty", fields |-> EmptyDict]
BadBody == [kind |-> "bad", fields |-> EmptyDict]
ArrayBody == [kind |-> "array", fields |-> EmptyDict]
ObjectBody(f) == [kind |-> "object", fields |-> f]

\* A request: the method and path of the request line, the query parameters
\* parse_qs gives ("" for one that is absent) and the body.
NoQuery == [format |-> "", quality |-> "", return_base64 |-> ""]
NoReq == [method |-> "", path |-> "", query |-> NoQuery, body |-> EmptyBody]
Req(m, p, q, b) == [method |-> m, path |-> p, query |-> q, body |-> b]

\* _read_json swallowing the parse error and going on with {}.
ReadJsonLenient(body) ==
    [exc |-> "",
     data |-> IF body.kind = "object" THEN body.fields ELSE EmptyDict,
     dict |-> body.kind # "array"]

\* _read_json: exc is the exception json.loads raised ("" when none), dict
\* whether the value returned is a dict, data that dict.
ReadJson(body) ==
    CASE body.kind = "empty" ->
            [exc |-> "", data |-> EmptyDict, dict |-> TRUE]
      [] body.kind = "bad" ->
            [exc |-> "JSONDecodeError", data |-> EmptyDict, dict |-> FALSE]
      [] body.kind = "array" ->
            [exc |-> "", data |-> EmptyDict, dict |-> FALSE]
      [] OTHER -> [exc |-> "", data |-> body.fields, dict |-> TRUE]

GetRoutes == {"/health", "/screenshot", "/mouse/position", "/ui/windows"}

PostRoutes ==
    {"/click", "/double_click", "/mouse/move", "/mouse/scroll",
     "/mouse/drag", "/keyboard/type", "/keyboard/key", "/ui/focus"}

\* What a handler has done when it first blocks or returns: the response it
\* wrote (kind "none" while the adapter is still to run), the adapter call
\* and its steps, and the temporary file it holds.
Done(r) == [resp |-> r, call |-> NoCall, plan |-> <<>>, tmp |-> "none"]
Start(c) == [resp |-> NoResp, call |-> c, plan |-> PlanOf(c), tmp |-> "none"]

\* The capture made with scrot whatever the session.
CapturePlanAlwaysScrot(sess) == <<CmdStep(ScrotCmd)>>

\* take_screenshot up to its first backend: the temporary file is created,
\* then the backend is chosen by XDG_SESSION_TYPE.
CapturePlan(sess) ==
    IF sess = "wayland" THEN <<CmdStep(GrimCmd)>> ELSE <<CmdStep(ScrotCmd)>>

StartCapture(c, sess) ==
    [resp |-> NoResp, call |-> c, plan |-> CapturePlan(sess),
     tmp |-> "present"]

DoGet(path, q, sess) ==
    CASE path = "/health" -> Done(SendJson(HealthBody, 200))
      [] path = "/screenshot" ->
            IF q.quality # "" /\ ~CanInt(JStr(q.quality))
            THEN Done(SendJson(ErrorBody("ValueError"), 500))
            ELSE StartCapture(
                    Call("take_screenshot",
                         <<JStr(IF q.format = "" THEN "jpeg" ELSE q.format),
                           JInt(IF q.quality = "" THEN DefaultQuality
                                ELSE IntVal(JStr(q.quality)))>>),
                    sess)
      [] path = "/mouse/position" -> Start(Call("get_mouse_position", <<>>))
      [] path = "/ui/windows" -> Start(Call("get_windows", <<>>))
      [] OTHER -> Done(SendJson(ErrorBody("Not found"), 404))

\* The adapter call made with data.get(key) and no default: an absent field
\* arrives as None.
PostCallNoDefault(path, data) ==
    CASE path = "/click" ->
            Call("click", <<Get(data, "x", JNull), Get(data, "y", JNull),
                            Get(data, "button", JNull)>>)
      [] path = "/double_click" ->
            Call("double_click",
                 <<Get(data, "x", JNull), Get(data, "y", JNull)>>)
      [] path = "/mouse/move" ->
            Call("move_mouse", <<Get(data, "x", JNull), Get(data, "y", JNull)>>)
      [] path = "/mouse/scroll" ->
            Call("scroll", <<Get(data, "direction", JNull),
                             Get(data, "amount", JNull)>>)
      [] path = "/mouse/drag" ->
            Call("drag",
                 <<Get(data, "startX", JNull), Get(data, "startY", JNull),
                   Get(data, "endX", JNull), Get(data, "endY", JNull)>>)
      [] path = "/keyboard/type" ->
            Call("type_text", <<Get(data, "text", JNull)>>)
      [] path = "/keyboard/key" ->
            Call("press_key", <<Get(data, "key", JNull)>>)
      [] OTHER -> Call("focus_window", <<Get(data, "windowId", JNull)>>)

\* The adapter call of a POST route, absent fields defaulted by data.get.
PostCall(path, data) ==
    CASE path = "/click" ->
            Call("click", <<Get(data, "x", JInt(0)), Get(data, "y", JInt(0)),
                            Get(data, "button", JStr("left"))>>)
      [] path = "/double_click" ->
            Call("double_click",
                 <<Get(data, "x", JInt(0)), Get(data, "y", JInt(0))>>)
      [] path = "/mouse/move" ->
            Call("move_mouse",
                 <<Get(data, "x", JInt(0)), Get(data, "y", JInt(0))>>)
      [] path = "/mouse/scroll" ->
            Call("scroll", <<Get(data, "direction", JStr("down")),
                             Get(data, "amount", JInt(DefaultAmount))>>)
      [] path = "/mouse/drag" ->
            Call("drag",
                 <<Get(data, "startX", JInt(0)), Get(data, "startY", JInt(0)),
                   Get(data, "endX", JInt(0)), Get(data, "endY", JInt(0))>>)
      [] path = "/keyboard/type" ->
            Call("type_text", <<Get(data, "text", JStr(""))>>)
      [] path = "/keyboard/key" ->
            Call("press_key", <<Get(data, "key", JStr(""))>>)
      [] OTHER -> Call("focus_window", <<Get(data, "windowId", JStr(""))>>)

DoPost(path, body) ==
    LET rj == ReadJson(body) IN
    IF rj.exc # "" THEN Done(SendJson(ErrorBody(rj.exc), 500))
    ELSE IF path \in PostRoutes
    THEN IF rj.dict THEN Start(PostCall(path, rj.data))
         ELSE Done(SendJson(ErrorBody("AttributeError"), 500))
    ELSE Done(SendJson(ErrorBody("Not found"), 404))

\* take_screenshot swallowing its exception as the other operations do and
\* returning no bytes, which do_GET then sends as the image.
RespOnRaiseEmptyCapture(c, exc) ==
    CASE c.op \in InputOps -> SendJson(SuccessBody(FALSE), 200)
      [] c.op = "get_mouse_position" -> SendJson(PositionBody(0, 0), 200)
      [] c.op = "get_windows" -> SendJson(WindowsBody(<<>>), 200)
      [] OTHER -> SendImage("", "image/png")

\* get_windows letting its exception through to do_GET's handler.
RespOnRaiseHardWindows(c, exc) ==
    CASE c.op \in InputOps -> SendJson(SuccessBody(FALSE), 200)
      [] c.op = "get_mouse_position" -> SendJson(PositionBody(0, 0), 200)
      [] OTHER -> SendJson(ErrorBody(exc), 500)

\* What the exception handlers make of an exception raised inside an
\* adapter operation: the input operations return False, get_mouse_position
\* returns the origin, get_windows the empty list, and take_screenshot
\* re-raises into do_GET's handler.
RespOnRaise(c, exc) ==
    CASE c.op \in InputOps -> SendJson(SuccessBody(FALSE), 200)
      [] c.op = "get_mouse_position" -> SendJson(PositionBody(0, 0), 200)
      [] c.op = "get_windows" -> SendJson(WindowsBody(<<>>), 200)
      [] OTHER -> SendJson(ErrorBody(exc), 500)

\* What the capture file may hold: nothing (as NamedTemporaryFile left it),
\* bytes that are no image, an image cut short, or a whole image of a mode.
Modes == {"RGB", "RGBA", "L", "LA"}
Undecodable == {"empty", "garbage"}

\* if img.mode == 'RGBA': img = img.convert('RGB')
Converted(mode) == IF mode = "RGBA" THEN "RGB" ELSE mode

\* The conversion of the decoded capture: "" when img.save raises (the
\* pixels of a file cut short do not load; the JPEG encoder writes modes
\* RGB and L and refuses LA).
Encode(fmt, mode) ==
    IF mode \notin Modes THEN ""
    ELSE IF Lower(fmt) = "jpeg"
    THEN IF Converted(mode) \in {"RGB", "L"} THEN "JPEG" ELSE ""
    ELSE "PNG"

\* base64.b64encode(data).decode(): the text that stands for the bytes.
B64Encode(data) == "base64(" \o data \o ")"

\* do_GET's answer with the bytes take_screenshot returned.
ScreenshotResp(fmt, data, b64) ==
    IF b64 THEN SendJson(EnvelopeBody(fmt, B64Encode(data)), 200)
    ELSE SendImage(data, IF fmt = "jpeg" THEN "image/jpeg" ELSE "image/png")

\* Text is a sequence of characters.  str.strip() and str.split(None, n)
\* take runs of these for whitespace.
IsSpace(ch) == ch \in {" ", "\n", "\t"}

RECURSIVE LStrip(_)
LStrip(t) ==
    IF t # <<>> /\ IsSpace(Head(t)) THEN LStrip(Tail(t)) ELSE t

RECURSIVE RStrip(_)
RStrip(t) ==
    IF t # <<>> /\ IsSpace(t[Len(t)]) THEN RStrip(SubSeq(t, 1, Len(t) - 1))
    ELSE t

Strip(t) == RStrip(LStrip(t))

\* The length of the run of characters other than ch at the head of t.
RECURSIVE UpTo(_, _)
UpTo(t, ch) ==
    IF t = <<>> \/ Head(t) = ch THEN 0 ELSE 1 + UpTo(Tail(t), ch)

\* t.split('\n')
RECURSIVE SplitLines(_)
SplitLines(t) ==
    LET k == UpTo(t, "\n") IN
    IF k = Len(t) THEN <<t>>
    ELSE <<SubSeq(t, 1, k)>> \o SplitLines(SubSeq(t, k + 2, Len(t)))

\* The length of the run of characters that are not whitespace at the
\* head of t.
RECURSIVE WordLen(_)
WordLen(t) ==
    IF t = <<>> \/ IsSpace(Head(t)) THEN 0 ELSE 1 + WordLen(Tail(t))

\* t.split(None, maxsplit): at most maxsplit splits at runs of whitespace
\* (any number when maxsplit is negative); what is left after the last
\* split is one piece, its leading whitespace dropped.
RECURSIVE Split(_, _)
Split(t, maxsplit) ==
    LET u == LStrip(t) IN
    IF u = <<>> THEN <<>>
    ELSE IF maxsplit = 0 THEN <<u>>
    ELSE <<SubSeq(u, 1, WordLen(u))>>
         \o Split(SubSeq(u, WordLen(u) + 1, Len(u)), maxsplit - 1)

\* A line split at every run of whitespace, the fifth word taken for the
\* title.
WindowOfWords(line) ==
    LET parts == Split(line, -1) IN
    IF Len(parts) >= 5
    THEN <<[id |-> parts[1], desktop |-> parts[2], pid |-> parts[3],
            machine |-> parts[4], title |-> parts[5]]>>
    ELSE <<>>

\* The entry get_windows makes of one line: parts = line.split(None, 4).
WindowOf(line) ==
    LET parts == Split(line, 4) IN
    IF Len(parts) >= 5
    THEN <<[id |-> parts[1], desktop |-> parts[2], pid |-> parts[3],
            machine |-> parts[4], title |-> parts[5]]>>
    ELSE <<>>

RECURSIVE WindowsOf(_)
WindowsOf(lines) ==
    IF lines = <<>> THEN <<>>
    ELSE (IF Head(lines) # <<>> THEN WindowOf(Head(lines)) ELSE <<>>)
         \o WindowsOf(Tail(lines))

\* get_windows' parse of wmctrl's output.
ParseWindows(out) == WindowsOf(SplitLines(Strip(out)))

\* ------------------------------------------------------------ the requests
\* The field values the requests of the model carry.
XVals == {JAbsent, JInt(5), JStr("abc"), JNull}
YVals == {JAbsent, JInt(7), JStr("12")}
ButtonVals ==
    {JAbsent, JStr("left"), JStr("right"), JStr("middle"), JStr("nonsense"),
     JNull, JList}

FieldsOf(path) ==
    CASE path = "/click" ->
            {Obj([x |-> a, y |-> b]) : a \in XVals, b \in YVals}
            \cup {Obj([x |-> JInt(5), y |-> b, button |-> c]) :
                     b \in {JInt(7), JStr("12")}, c \in ButtonVals}
      [] path \in {"/double_click", "/mouse/move"} ->
            {Obj([x |-> a, y |-> b]) : a \in XVals, b \in YVals}
      [] path = "/mouse/scroll" ->
            {Obj([direction |-> d, amount |-> a]) :
                d \in {JAbsent, JStr("down"), JStr("up"), JStr("sideways")},
                a \in {JAbsent, JInt(2), JStr("abc")}}
      [] path = "/mouse/drag" ->
            {EmptyDict}
            \cup {Obj([startX |-> a, startY |-> JInt(7), endX |-> c,
                       endY |-> JStr("12")]) :
                     a \in {JAbsent, JInt(5), JStr("abc")},
                     c \in {JAbsent, JInt(5), JNull}}
            \cup {Obj([startX |-> JInt(5), startY |-> b, endX |-> JInt(5),
                       endY |-> d]) :
                     b \in {JAbsent, JInt(7)},
                     d \in {JAbsent, JStr("12"), JStr("abc")}}
      [] path = "/keyboard/type" ->
            {Obj([text |-> a]) : a \in {JAbsent, JStr("a"), JInt(5)}}
      [] path = "/keyboard/key" ->
            {Obj([key |-> a]) :
                a \in {JAbsent, JStr("enter"), JStr("ENTER"), JStr("Esc"),
                       JStr("F5"), JStr("A"), JStr("PageDown"), JStr("Tab"),
                       JStr("space"), JStr("ctrl+c"), JNull}}
      [] path = "/ui/focus" ->
            {Obj([windowId |-> a]) : a \in {JAbsent, JStr("a"), JInt(5)}}
      [] OTHER -> {EmptyDict, Obj([x |-> JInt(5)])}

Bodies(path) ==
    {EmptyBody, BadBody, ArrayBody} \cup {ObjectBody(f) : f \in FieldsOf(path)}

Queries(path) ==
    IF path = "/screenshot"
    THEN [format : {"", "png", "JPEG", "bmp"},
          quality : {""},
          return_base64 : {"", "TRUE", "false"}]
         \cup {[NoQuery EXCEPT !.quality = v] : v \in {"50", "abc"}}
         \cup {[NoQuery EXCEPT !.format = "jpeg", !.return_base64 = "true"]}
    ELSE {NoQuery, [NoQuery EXCEPT !.format = "png"]}

Paths == GetRoutes \cup PostRoutes \cup {"/nonexistent"}
OtherMethods == {"PUT", "DELETE", "HEAD"}

\* What wmctrl -l -p may print: nothing; one window; a window whose title
\* has two words, two spaces between them and one after, then a window with
\* no title, an empty line, and a last window with a space after its title.
WmctrlOutputs ==
    {<<>>,
     <<"0", "x", "1", " ", "0", " ", "1", "0", " ", "h", " ", "T", "e",
       "r", "m", "\n">>,
     <<"0", "x", "1", " ", " ", "0", " ", "1", "0", " ", "h", " ", "M",
       "y", " ", " ", "E", "d", " ", "\n", "0", "x", "2", " ", "1", " ",
       "1", "1", " ", "h", "\n", "\n", "0", "x", "3", " ", "0", " ", "1",
       "2", " ", "h", " ", "W", "e", "b", " ", "\n">>}

\* What xdotool getmouselocation may print with the pointer at p: its
\* name:value tokens ("x:5 y:7 screen:0 window:9"), or nothing.
LocationOutputs(p) ==
    {<<<<"x", Decimal(p[1])>>, <<"y", Decimal(p[2])>>, <<"screen", "0">>,
       <<"window", "9">>>>,
     <<<<"x", "abc">>, <<"y", Decimal(p[2])>>>>,
     <<>>}

\* get_mouse_position's parse: the values of the first two tokens, through
\* int(); <<>> when a token is missing or int() raises.
ParseLocation(out) ==
    IF Len(out) >= 2 /\ CanInt(JStr(out[1][2])) /\ CanInt(JStr(out[2][2]))
    THEN <<IntVal(JStr(out[1][2])), IntVal(JStr(out[2][2]))>>
    ELSE <<>>

\* ScreenController.__init__ / _init_display: the handle Xlib gives, or None
\* when the import or the connection raises.
InitDisplay(ok) == IF ok THEN "handle" ELSE "none"

\* ----------------------------------------------------------------- the tray
\* What requests.get(.../health, timeout=2) may come to: an answer with a
\* status code, or an exception (connection refused, timed out).
PollOutcomes == {"200", "503", "refused", "timeout"}
Answered(o) == o \in {"200", "503"}

\* ScreenControlTray.__init__ and run(): not connected, the timer armed.
TrayInit ==
    [connected |-> FALSE, label |-> "", timer |-> "armed", polled |-> "none"]

\* update_status taking any answer of the endpoint for a sign of life.
UpdateStatusAnyAnswer(t, o) ==
    [connected |-> Answered(o),
     label |-> IF Answered(o) THEN "Status: Connected"
               ELSE "Status: Service not running",
     timer |-> "armed",
     polled |-> o]

\* update_status with the poll coming to o; the callback returns True.
UpdateStatus(t, o) ==
    [connected |-> Answered(o) /\ o = "200",
     label |-> IF ~Answered(o) THEN "Status: Service not running"
               ELSE IF o = "200" THEN "Status: Connected"
               ELSE "Status: Disconnected",
     timer |-> "armed",
     polled |-> o]

\* -------------------------------------------------------------------- state
VARIABLES
    session,   \* XDG_SESSION_TYPE of the process: "wayland" or "x11"
    backlog,   \* connections waiting to be accepted
    pc,        \* the serving thread: idle, run (about to call
               \* subprocess.run), wait (inside it), done (response written)
    req,       \* the request being handled
    call,      \* the adapter call the handler made
    plan,      \* the steps that call has still to take
    cmds,      \* the commands the call has issued so far, with their outcome
    resp,      \* the response written
    tmp,       \* the capture's temporary file: none, present, unlinked
    img,       \* what that file holds: empty, garbage or an image's mode
    pointer,   \* where the pointer is
    leaked,    \* temporary files earlier captures left behind
    stdout,    \* what the last backend command of the request printed
    moved,     \* the (x, y) the last move_mouse that succeeded was called
               \* with, while no other pointer operation has run since;
               \* <<>> otherwise
    tray,      \* the tray's liveness state
    display    \* the controller's display connection handle, or "none"

vars ==
    <<session, backlog, pc, req, call, plan, cmds, resp, tmp, img, pointer,
      leaked, stdout, moved, tray, display>>

Init ==
    /\ session \in {"wayland", "x11"}
    /\ backlog = 0
    /\ pc = "idle"
    /\ req = NoReq
    /\ call = NoCall
    /\ plan = <<>>
    /\ cmds = <<>>
    /\ resp = NoResp
    /\ tmp = "none"
    /\ img = "empty"
    /\ pointer = <<3, 3>>
    /\ leaked = 0
    /\ stdout = <<>>
    /\ moved = <<>>
    /\ tray = TrayInit
    /\ \E ok \in BOOLEAN : display = InitDisplay(ok)

\* A client connects.
Connect ==
    /\ backlog < MaxBacklog
    /\ backlog' = backlog + 1
    /\ UNCHANGED <<session, pc, req, call, plan, cmds, resp, tmp, img,
                   pointer, leaked, stdout, moved, tray,
                   display>>

\* A server that hands each connection to a thread of its own.
WorkerPerRequest == TRUE

\* HTTPServer.serve_forever runs on one thread and handles a request to its
\* end before it accepts the next: a connection is taken only while no
\* request is being handled.
WorkerFree == pc = "idle"

\* The handler has run to h: its first backend call or its response.
Handle(r, h) ==
    /\ WorkerFree
    /\ backlog > 0
    /\ backlog' = backlog - 1
    /\ req' = r
    /\ call' = h.call
    /\ plan' = h.plan
    /\ resp' = h.resp
    /\ tmp' = h.tmp
    /\ pc' = IF h.resp.kind = "none" THEN "run" ELSE "done"
    /\ cmds' = <<>>
    /\ UNCHANGED <<session, img, pointer, leaked, stdout, moved, tray,
                   display>>

AcceptGET ==
    \E p \in Paths : \E q \in Queries(p) :
        /\ p = "/screenshot" => leaked < MaxLeaked
        /\ Handle(Req("GET", p, q, EmptyBody), DoGet(p, q, session))

AcceptPOST ==
    \E p \in Paths : \E b \in Bodies(p) :
        Handle(Req("POST", p, NoQuery, b), DoPost(p, b))

AcceptOPTIONS ==
    \E p \in Paths :
        Handle(Req("OPTIONS", p, NoQuery, EmptyBody), Done(OptionsResp))

AcceptOther ==
    \E m \in OtherMethods : \E p \in Paths :
        Handle(Req(m, p, NoQuery, EmptyBody), Done(UnsupportedResp))

IsB64(r) == Lower(r.query.return_base64) = "true"

\* subprocess.run returns when the process it waits for exits.
Exits == pc = "wait" /\ cmds[Len(cmds)].out = "running"

PointerOps == {"click", "double_click", "move_mouse", "scroll", "drag"}

SetOut(cs, o) == [cs EXCEPT ![Len(cs)].out = o]

\* The adapter reaches its next step: the argv cannot be built (an
\* exception), the tool is not installed (FileNotFoundError), or the
\* process is started; a process started either exits in the end or is
\* one that never exits on its own (hung).  subprocess.run is given no
\* timeout, so nothing but the exit of the process ends the wait.
Spawn ==
    /\ pc = "run"
    /\ LET st == Head(plan) IN
       \E o \in {"running", "missing", "hung"} :
          /\ cmds' = IF st.raise THEN cmds
                     ELSE Append(cmds, [st.cmd EXCEPT !.out = o])
          /\ IF st.raise \/ o = "missing"
             THEN /\ resp' = RespOnRaise(call,
                        IF st.raise THEN st.exc ELSE "FileNotFoundError")
                  /\ pc' = "done"
             ELSE /\ resp' = resp
                  /\ pc' = "wait"
    /\ UNCHANGED <<session, backlog, req, call, plan, tmp, img, pointer,
                   leaked, stdout, moved, tray,
                   display>>

\* A command of an input operation returns (check=True): non-zero ends the
\* operation with False, zero goes on to the next step; True after the last.
ExitInput ==
    /\ Exits
    /\ call.op \in InputOps
    /\ \E rc \in {"ok", "fail"} :
          LET c == cmds[Len(cmds)] IN
          /\ cmds' = SetOut(cmds, rc)
          /\ pointer' = IF rc = "ok" /\ c.verb = "mousemove"
                        THEN <<c.x, c.y>> ELSE pointer
          /\ plan' = IF rc = "ok" THEN Tail(plan) ELSE plan
          /\ resp' = IF rc = "fail" THEN SendJson(SuccessBody(FALSE), 200)
                     ELSE IF Tail(plan) = <<>>
                     THEN SendJson(SuccessBody(TRUE), 200)
                     ELSE resp
          /\ pc' = IF rc = "ok" /\ Tail(plan) # <<>> THEN "run" ELSE "done"
          /\ moved' = IF call.op = "move_mouse" /\ rc = "ok"
                      THEN <<IntVal(call.args[1]), IntVal(call.args[2])>>
                      ELSE IF call.op \in PointerOps THEN <<>> ELSE moved
    /\ UNCHANGED <<session, backlog, req, call, tmp, img, leaked, stdout,
                   tray,
                   display>>

\* A capture backend returns.  One that exits zero has written the file;
\* one that exits non-zero has left it as it was or cut short.  grim's
\* non-zero exit falls back to gnome-screenshot, whose exit status is not
\* looked at; scrot runs with check=True.  Then the file is decoded,
\* converted and unlinked.
ExitCapture ==
    /\ Exits
    /\ call.op = "take_screenshot"
    /\ \E rc \in {"ok", "fail"} :
       \E content \in IF rc = "ok" THEN Modes \cup {"garbage"}
                      ELSE {img, "truncated"} :
          LET c == cmds[Len(cmds)]
              fmt == call.args[1].s
              data == Encode(fmt, content)
          IN
          /\ cmds' = SetOut(cmds, rc)
          /\ img' = content
          /\ IF c.tool = "grim" /\ rc = "fail"
             THEN /\ plan' = <<CmdStep(GnomeCmd)>>
                  /\ pc' = "run"
                  /\ UNCHANGED <<resp, tmp>>
             ELSE /\ plan' = <<>>
                  /\ pc' = "done"
                  /\ tmp' = IF (c.tool = "scrot" /\ rc = "fail") \/ data = ""
                            THEN tmp ELSE "unlinked"
                  /\ resp' =
                        IF c.tool = "scrot" /\ rc = "fail"
                        THEN SendJson(ErrorBody("CalledProcessError"), 500)
                        ELSE IF content \in Undecodable
                        THEN SendJson(ErrorBody("UnidentifiedImageError"), 500)
                        ELSE IF data = ""
                        THEN SendJson(ErrorBody("OSError"), 500)
                        ELSE ScreenshotResp(fmt, data, IsB64(req))
    /\ UNCHANGED <<session, backlog, req, call, pointer, leaked, stdout,
                   moved, tray,
                   display>>

\* xdotool getmouselocation returns: its output is parsed, and a non-zero
\* exit or an output that does not parse gives the origin.
ExitPosition ==
    /\ Exits
    /\ call.op = "get_mouse_position"
    /\ \E rc \in {"ok", "fail"} : \E out \in LocationOutputs(pointer) :
          LET pos == ParseLocation(out) IN
          /\ cmds' = SetOut(cmds, rc)
          /\ stdout' = out
          /\ resp' = IF rc = "ok" /\ pos # <<>>
                     THEN SendJson(PositionBody(pos[1], pos[2]), 200)
                     ELSE SendJson(PositionBody(0, 0), 200)
    /\ pc' = "done"
    /\ plan' = <<>>
    /\ UNCHANGED <<session, backlog, req, call, tmp, img, pointer, leaked,
                   moved, tray,
                   display>>

\* wmctrl -l -p returns: its lines are parsed; a non-zero exit gives [].
ExitWindows ==
    /\ Exits
    /\ call.op = "get_windows"
    /\ \E rc \in {"ok", "fail"} : \E out \in WmctrlOutputs :
          /\ cmds' = SetOut(cmds, rc)
          /\ stdout' = out
          /\ resp' = IF rc = "ok"
                     THEN SendJson(WindowsBody(ParseWindows(out)), 200)
                     ELSE SendJson(WindowsBody(<<>>), 200)
    /\ pc' = "done"
    /\ plan' = <<>>
    /\ UNCHANGED <<session, backlog, req, call, tmp, img, pointer, leaked,
                   moved, tray,
                   display>>

\* A handler whose error ends the serving loop.
FinishStopsOnError ==
    /\ pc = "done"
    /\ pc' = IF \/ resp.status \in {404, 500}
                \/ resp.kind = "success" /\ ~resp.success
             THEN "stopped" ELSE "idle"
    /\ req' = NoReq
    /\ call' = NoCall
    /\ plan' = <<>>
    /\ cmds' = <<>>
    /\ resp' = NoResp
    /\ leaked' = IF tmp = "present" THEN leaked + 1 ELSE leaked
    /\ tmp' = "none"
    /\ img' = "empty"
    /\ stdout' = <<>>
    /\ UNCHANGED <<session, backlog, pointer, moved, tray,
                   display>>

\* A handler that opens the display connection again when it returns.
FinishReopensDisplay ==
    /\ pc = "done"
    /\ pc' = "idle"
    /\ req' = NoReq
    /\ call' = NoCall
    /\ plan' = <<>>
    /\ cmds' = <<>>
    /\ resp' = NoResp
    /\ leaked' = IF tmp = "present" THEN leaked + 1 ELSE leaked
    /\ tmp' = "none"
    /\ img' = "empty"
    /\ stdout' = <<>>
    /\ display' = "handle"
    /\ UNCHANGED <<session, backlog, pointer, moved, tray>>

\* The response is on the wire; the handler returns and the serving loop
\* takes the next connection.  A temporary file still present stays behind.
Finish ==
    /\ pc = "done"
    /\ pc' = "idle"
    /\ req' = NoReq
    /\ call' = NoCall
    /\ plan' = <<>>
    /\ cmds' = <<>>
    /\ resp' = NoResp
    /\ leaked' = IF tmp = "present" THEN leaked + 1 ELSE leaked
    /\ tmp' = "none"
    /\ img' = "empty"
    /\ stdout' = <<>>
    /\ UNCHANGED <<session, backlog, pointer, moved, tray,
                   display>>

\* The periodic timer fires (or run() makes its first call): update_status
\* polls the service's health endpoint and sets the status; the timer stays
\* armed for as long as the callback returns True.
Poll ==
    /\ tray.timer = "armed"
    /\ \E o \in PollOutcomes : tray' = UpdateStatus(tray, o)
    /\ UNCHANGED <<session, backlog, pc, req, call, plan, cmds, resp, tmp,
                   img, pointer, leaked, stdout, moved,
                   display>>

Next ==
    \/ Connect
    \/ AcceptGET
    \/ AcceptPOST
    \/ AcceptOPTIONS
    \/ AcceptOther
    \/ Spawn
    \/ ExitInput
    \/ ExitCapture
    \/ ExitPosition
    \/ ExitWindows
    \/ Finish
    \/ Poll

Spec == Init /\ [][Next]_vars

\* ------------------------------------------------------------------ claims
Listed(r) ==
    \/ r.method = "GET" /\ r.path \in GetRoutes
    \/ r.method = "POST" /\ r.path \in PostRoutes

NotFound(r) == r.status = 404 /\ r.kind = "error" /\ r.error = "Not found"
ServerError(r) == r.status = 500 /\ r.kind = "error" /\ r.error # ""

\* A command as issued, whatever became of it.
Issued(c) == [c EXCEPT !.out = "new"]

\* The commands issued so far are the first ones of `full`, in order.
IssuedPrefixOf(full) ==
    /\ Len(cmds) <= Len(full)
    /\ \A i \in 1 .. Len(cmds) : Issued(cmds[i]) = full[i]

NoCommandFailed == \A i \in 1 .. Len(cmds) : cmds[i].out = "ok"
LastFailed == cmds # <<>> /\ cmds[Len(cmds)].out \in {"fail", "missing"}

\* C1: once take_screenshot has returned or raised, the temporary file it
\* created no longer exists, on every path.
C1_TempFileRemoved ==
    (pc = "done" /\ call.op = "take_screenshot") => tmp # "present"

\* C2: while one request waits for its backend command, a second request
\* (GET /health) that has connected can be accepted and handled.
C2_NotSerialized ==
    (pc = "wait" /\ backlog > 0) =>
        ENABLED Handle(Req("GET", "/health", NoQuery, EmptyBody),
                       DoGet("/health", NoQuery, session))

\* C3: a GET or POST on a path that is not a listed route is answered 404
\* {"error": "Not found"}, whatever its query string or body.
C3_UnlistedIs404 ==
    (pc = "done" /\ req.method \in {"GET", "POST"} /\ ~Listed(req)) =>
        NotFound(resp)

\* C4: a request whose method is none of GET, POST, OPTIONS is answered 404
\* {"error": "Not found"}.
C4_OtherMethodIs404 ==
    (pc = "done" /\ req.method \notin {"GET", "POST", "OPTIONS"}) =>
        NotFound(resp)

\* The adapter operation of the request failed: an input operation or the
\* position query whose command is missing or exits non-zero, a capture
\* that ends without a converted image.
AdapterFailed ==
    \/ call.op \in InputOps \cup {"get_mouse_position"} /\ LastFailed
    \/ /\ call.op = "take_screenshot"
       /\ \/ LastFailed
          \/ img \in Undecodable
          \/ Encode(call.args[1].s, img) = ""

\* C5: whenever the adapter operation of a request fails the response is a
\* 500 with a JSON error message, never a 200.
C5_FailureIs500 == (pc = "done" /\ AdapterFailed) => ServerError(resp)

\* The adapter call the documented defaults give for a POST route.
DefaultCall(path) ==
    CASE path = "/click" -> Call("click", <<JInt(0), JInt(0), JStr("left")>>)
      [] path = "/double_click" -> Call("double_click", <<JInt(0), JInt(0)>>)
      [] path = "/mouse/move" -> Call("move_mouse", <<JInt(0), JInt(0)>>)
      [] path = "/mouse/scroll" -> Call("scroll", <<JStr("down"), JInt(3)>>)
      [] path = "/mouse/drag" ->
            Call("drag", <<JInt(0), JInt(0), JInt(0), JInt(0)>>)
      [] path = "/keyboard/type" -> Call("type_text", <<JStr("")>>)
      [] path = "/keyboard/key" -> Call("press_key", <<JStr("")>>)
      [] OTHER -> Call("focus_window", <<JStr("")>>)

NoFields(r) == r.body = EmptyBody \/ r.body = ObjectBody(EmptyDict)

\* C6: a POST to a listed route with an empty body or {} is never answered
\* 500: the adapter operation is called with every field at its default and
\* the request is answered 200 {success}; POST /click with {} issues the
\* warp to (0,0) and then the click of button index 1, and nothing else.
C6_DefaultsDispatched ==
    (pc # "idle" /\ req.method = "POST" /\ req.path \in PostRoutes
        /\ NoFields(req)) =>
        /\ call = DefaultCall(req.path)
        /\ resp.status # 500
        /\ pc = "done" => resp.status = 200 /\ resp.kind = "success"
        /\ req.path = "/click" =>
              /\ IssuedPrefixOf(<<Warp(0, 0), ClickCmd("1", "")>>)
              /\ pc # "run" => cmds # <<>>
              /\ (pc = "done" /\ NoCommandFailed) =>
                    Len(cmds) = 2 /\ resp.success

C6_Witness ==
    /\ pc = "done"
    /\ req = Req("POST", "/click", NoQuery, ObjectBody(EmptyDict))
    /\ cmds = <<[Warp(0, 0) EXCEPT !.out = "ok"],
                [ClickCmd("1", "") EXCEPT !.out = "ok"]>>
    /\ resp.status = 200
    /\ resp.success

\* The coordinate a numeric field stands for when a malformed one counts as 0.
ZeroIfMalformed(v) == IF CanInt(v) THEN IntVal(v) ELSE 0

\* C7: a POST whose x or y is present but malformed is handled as if that
\* field were 0: the warp is issued, with 0 for that coordinate.
C7_MalformedIsZero ==
    (pc = "done" /\ call.op \in {"click", "double_click", "move_mouse"}
        /\ (call.op = "click" => Hashable(call.args[3]))
        /\ (~CanInt(call.args[1]) \/ ~CanInt(call.args[2]))) =>
        /\ cmds # <<>>
        /\ Issued(cmds[1]) = Warp(ZeroIfMalformed(call.args[1]),
                                  ZeroIfMalformed(call.args[2]))

\* C8: a POST to a listed route whose body is not parseable JSON is answered
\* 500 with a JSON error message, and no adapter operation is called and no
\* backend command issued for it.
C8_BadJsonIs500 ==
    (req.method = "POST" /\ req.path \in PostRoutes /\ req.body.kind = "bad") =>
        /\ pc = "done"
        /\ ServerError(resp)
        /\ call = NoCall
        /\ cmds = <<>>

C8_Witness ==
    /\ pc = "done"
    /\ req = Req("POST", "/click", NoQuery, BadBody)
    /\ resp.status = 500
    /\ resp.error = "JSONDecodeError"

\* The button index the documented mapping gives.
DocumentedIndex(button) ==
    IF button = JStr("right") THEN "3"
    ELSE IF button = JStr("middle") THEN "2"
    ELSE "1"

\* C9: for every button value, Click dispatches index 1 for "left", 3 for
\* "right", 2 for "middle" and 1 for any other value, and an unknown value
\* does not make the click fail: with coordinates that convert and no
\* backend command failing, the click of that index is issued and Click
\* succeeds.
C9_ButtonIndex ==
    (pc = "done" /\ call.op = "click" /\ CanInt(call.args[1])
        /\ CanInt(call.args[2]) /\ NoCommandFailed) =>
        /\ Len(cmds) = 2
        /\ Issued(cmds[2]) = ClickCmd(DocumentedIndex(call.args[3]), "")
        /\ resp.success

\* C10: DoubleClick(x, y) issues the warp to (x, y) once and then, the warp
\* having exited zero, one click command with repeat count 2 on button 1:
\* never a second warp, never a second click command.
C10_DoubleClickOnce ==
    (call.op = "double_click" /\ CanInt(call.args[1]) /\ CanInt(call.args[2]))
    =>
        /\ IssuedPrefixOf(<<Warp(IntVal(call.args[1]), IntVal(call.args[2])),
                            ClickCmd("1", "2")>>)
        /\ pc # "run" => cmds # <<>>
        /\ Len(cmds) = 2 => cmds[1].out = "ok"
        /\ (pc = "done" /\ cmds[1].out = "ok") => Len(cmds) = 2
        /\ (pc = "done" /\ NoCommandFailed) => resp.success

C10_Witness ==
    /\ pc = "done"
    /\ call = Call("double_click", <<JInt(5), JInt(7)>>)
    /\ cmds = <<[Warp(5, 7) EXCEPT !.out = "ok"],
                [ClickCmd("1", "2") EXCEPT !.out = "ok"]>>
    /\ resp.success

\* The media type and the format name of an encoding.
MediaType(enc) == IF enc = "JPEG" THEN "image/jpeg" ELSE "image/png"
FormatName(enc) == IF enc = "JPEG" THEN "jpeg" ELSE "png"

\* The bytes the capture of the request was encoded to.
CapturedBytes == Encode(call.args[1].s, img)

\* C11: for every value of the format parameter, the Content-Type of a raw
\* image response names the encoding of the bytes returned, and a base64
\* envelope carries the base64 text of exactly those bytes, its format field
\* naming their encoding (in any letter case).
C11_TypeNamesEncoding ==
    (pc = "done" /\ call.op = "take_screenshot") =>
        /\ resp.kind = "image" =>
              /\ resp.bytes = CapturedBytes
              /\ resp.ctype = MediaType(resp.bytes)
        /\ resp.kind = "envelope" =>
              /\ resp.bytes = B64Encode(CapturedBytes)
              /\ Lower(resp.fmt) = FormatName(CapturedBytes)

\* The capture could not be produced: the last backend tried is missing or
\* exited non-zero, the file does not decode, or the conversion fails.
CaptureFailed ==
    \/ LastFailed
    \/ img \in Undecodable
    \/ CapturedBytes = ""

WholeImages ==
    {"JPEG", "PNG"} \cup {B64Encode(d) : d \in {"JPEG", "PNG"}}

C13_JpegIsRGB ==
    (pc = "done" /\ call.op = "take_screenshot"
        /\ Lower(call.args[1].s) = "jpeg" /\ img \in Modes /\ ~LastFailed) =>
        /\ resp.status = 200
        /\ CapturedBytes = "JPEG"
        /\ Converted(img) = "RGB"

\* C14: every response written carries the three CORS headers: any origin,
\* the methods GET, POST, OPTIONS and the Content-Type request header.
C14_CorsOnEveryResponse ==
    (pc = "done" /\ req.method \in {"GET", "POST", "OPTIONS"}) =>
        {ACAO, ACAM, ACAH} \subseteq resp.headers

\* C15: after every run of update_status the connected status says whether
\* the health endpoint answered 200; a non-200 answer, a refused connection
\* and a timeout all leave it disconnected; and the timer is still armed,
\* so that a later poll sets the status again.
C15_StatusFollowsPoll ==
    /\ tray.timer = "armed"
    /\ tray.polled # "none" =>
          /\ tray.connected <=> tray.polled = "200"
          /\ tray.polled # "200" => tray.label # "Status: Connected"
          /\ ENABLED Poll

\* The status came back to connected after a poll that failed.
C15_Witness ==
    /\ tray.polled = "200"
    /\ tray.connected
    /\ pc = "wait"
    /\ backlog = 1

\* A step that ends the wait of the request for its backend process.
EndOfWait == ExitInput \/ ExitCapture \/ ExitPosition \/ ExitWindows

\* C16: no handler blocks indefinitely: whenever a request waits for a
\* backend process, also one that does not exit on its own, a step that
\* ends the wait is possible.
C16_WaitIsBounded == pc = "wait" => ENABLED EndOfWait

\* C17: when wmctrl is missing or exits non-zero, get_windows returns the
\* empty list and GET /ui/windows is answered 200 with windows = [].
C17_WindowsNeverFail ==
    (pc = "done" /\ call.op = "get_windows" /\ LastFailed) =>
        /\ resp.status = 200
        /\ resp.kind = "windows"
        /\ resp.success
        /\ resp.windows = <<>>

C17_Witness ==
    /\ pc = "done"
    /\ req.path = "/ui/windows"
    /\ cmds # <<>>
    /\ cmds[1].out = "fail"
    /\ stdout # <<>>
    /\ resp.status = 200
    /\ resp.windows = <<>>

\* The fields of a line, as positions: a field starts at a character that is
\* not whitespace and has whitespace (or nothing) before it.
FieldStarts(l) ==
    {i \in 1 .. Len(l) : ~IsSpace(l[i]) /\ (i = 1 \/ IsSpace(l[i - 1]))}

FieldStart(l, k) ==
    CHOOSE i \in FieldStarts(l) :
        Cardinality({j \in FieldStarts(l) : j < i}) = k - 1

FieldEnd(l, i) ==
    CHOOSE j \in i .. Len(l) :
        /\ \A m \in i .. j : ~IsSpace(l[m])
        /\ j = Len(l) \/ IsSpace(l[j + 1])

Field(l, k) == SubSeq(l, FieldStart(l, k), FieldEnd(l, FieldStart(l, k)))

\* The last character of t that is not whitespace.
LastInk(t) ==
    CHOOSE i \in 1 .. Len(t) :
        ~IsSpace(t[i]) /\ \A j \in (i + 1) .. Len(t) : IsSpace(t[j])

\* The line from its fifth field to its last character that is not
\* whitespace.
Remainder(l) == SubSeq(l, FieldStart(l, 5), LastInk(l))

\* The lines of the output that have at least five fields, in order.
TitledLines(out) ==
    SelectSeq(SplitLines(out), LAMBDA l : Cardinality(FieldStarts(l)) >= 5)

Synonym(k) ==
    CASE k \in {"enter", "return"} -> "Return"
      [] k \in {"esc", "escape"} -> "Escape"
      [] k = "tab" -> "Tab"
      [] k = "backspace" -> "BackSpace"
      [] k = "delete" -> "Delete"
      [] k = "space" -> "space"
      [] k = "up" -> "Up"
      [] k = "down" -> "Down"
      [] k = "left" -> "Left"
      [] k = "right" -> "Right"
      [] k = "home" -> "Home"
      [] k = "end" -> "End"
      [] k = "pageup" -> "Page_Up"
      [] k = "pagedown" -> "Page_Down"
      [] OTHER -> ""

\* C19: PressKey dispatches the key symbol of the synonym table when the
\* lower-cased token is in it, in whatever letter case the token came, and
\* the token exactly as given otherwise; one key command and no other.
C19_SynonymOrVerbatim ==
    (call.op = "press_key" /\ call.args[1].t = "str") =>
        LET token == call.args[1].s IN
        /\ pc # "run" => Len(cmds) = 1
        /\ cmds # <<>> =>
              Issued(cmds[1]) =
                KeyCmd(IF Synonym(Lower(token)) # ""
                       THEN Synonym(Lower(token)) ELSE token)
        /\ (pc = "done" /\ NoCommandFailed) => resp.success

\* "ENTER" dispatched as Return.
C19_Witness ==
    /\ pc = "done"
    /\ call = Call("press_key", <<JStr("ENTER")>>)
    /\ cmds = <<[KeyCmd("Return") EXCEPT !.out = "ok"]>>
    /\ resp.success

\* C20: a MoveMouse(x, y) that succeeded, followed by GetPosition with no
\* other pointer operation in between and a backend that exits zero and
\* prints the position the pointer was warped to, returns exactly (x, y).
C20_MoveThenPosition ==
    (pc = "done" /\ call.op = "get_mouse_position" /\ moved # <<>>
        /\ NoCommandFailed /\ cmds # <<>>
        /\ ParseLocation(stdout) = pointer) =>
        /\ resp.status = 200
        /\ resp.kind = "position"
        /\ <<resp.x, resp.y>> = moved

\* POST /mouse/move {"x": 5, "y": "12"}, then GET /mouse/position.
C20_Witness ==
    /\ pc = "done"
    /\ call.op = "get_mouse_position"
    /\ moved = <<5, 12>>
    /\ NoCommandFailed
    /\ resp.x = 5
    /\ resp.y = 12

\* C21: a capture in a Wayland session invokes grim first, gnome-screenshot
\* only after grim has exited non-zero, and never scrot; in another session
\* it invokes scrot alone, whose non-zero exit makes the capture fail; no
\* backend is invoked twice.
C21_BackendBySession ==
    call.op = "take_screenshot" =>
        /\ pc # "run" => cmds # <<>>
        /\ IF session = "wayland"
           THEN /\ IssuedPrefixOf(<<GrimCmd, GnomeCmd>>)
                /\ Len(cmds) = 2 => cmds[1].out = "fail"
                /\ (pc = "run" /\ cmds # <<>>) => cmds[1].out = "fail"
           ELSE /\ IssuedPrefixOf(<<ScrotCmd>>)
                /\ (pc = "done" /\ cmds[1].out = "fail") =>
                      ServerError(resp)

\* gnome-screenshot invoked after grim has failed.
C21_Witness ==
    /\ session = "wayland"
    /\ pc = "done"
    /\ Len(cmds) = 2
    /\ cmds[1].tool = "grim"
    /\ cmds[1].out = "fail"
    /\ cmds[2].tool = "gnome-screenshot"
    /\ cmds[2].out = "ok"
    /\ resp.status = 200

AllConvert(args) == \A i \in 1 .. Len(args) : CanInt(args[i])

\* C22: Drag(x0, y0, x1, y1) issues four commands in this order: warp to
\* (x0, y0), press button 1, warp to (x1, y1), release button 1, each after
\* the one before has exited zero, and no other command among them.
C22_DragFourCommands ==
    (call.op = "drag" /\ AllConvert(call.args)) =>
        /\ IssuedPrefixOf(
              <<Warp(IntVal(call.args[1]), IntVal(call.args[2])), MouseDown,
                Warp(IntVal(call.args[3]), IntVal(call.args[4])), MouseUp>>)
        /\ pc # "run" => cmds # <<>>
        /\ (pc = "done" /\ NoCommandFailed) => Len(cmds) = 4 /\ resp.success

C22_Witness ==
    /\ pc = "done"
    /\ call = Call("drag", <<JInt(5), JInt(7), JInt(5), JStr("12")>>)
    /\ Len(cmds) = 4
    /\ NoCommandFailed
    /\ pointer = <<5, 12>>
    /\ resp.success

\* C23: an input operation returns true if and only if every command it
\* issued exited zero; after the first command that fails no further
\* command is issued; and the operation returns false rather than raising.
C23_TrueIffAllExitedZero ==
    (pc = "done" /\ call.op \in InputOps) =>
        /\ resp.status = 200
        /\ resp.kind = "success"
        /\ resp.success <=> NoCommandFailed
        /\ \A i \in 1 .. Len(cmds) - 1 : cmds[i].out = "ok"

ButtonVerbs == {"click", "mousedown", "mouseup"}

\* C24: the first command MoveMouse, Click, DoubleClick and Drag issue is
\* the warp to the target (for Drag: start) coordinate, and a click, press
\* or release is issued only after that warp has exited zero.
C24_WarpFirst ==
    (call.op \in {"move_mouse", "click", "double_click", "drag"}
        /\ cmds # <<>>) =>
        /\ Issued(cmds[1]) = Warp(IntVal(call.args[1]), IntVal(call.args[2]))
        /\ \A i \in 1 .. Len(cmds) :
              cmds[i].verb \in ButtonVerbs => i > 1 /\ cmds[1].out = "ok"

C24_Witness ==
    /\ pc = "wait"
    /\ call = Call("click", <<JInt(5), JStr("12"), JStr("right")>>)
    /\ cmds = <<[Warp(5, 12) EXCEPT !.out = "ok"],
                [ClickCmd("3", "") EXCEPT !.out = "running"]>>

\* A button press took effect and no release was issued after it.
ButtonHeld ==
    \E i \in 1 .. Len(cmds) :
        /\ cmds[i].verb = "mousedown"
        /\ cmds[i].out = "ok"
        /\ \A j \in (i + 1) .. Len(cmds) : cmds[j].verb # "mouseup"

\* C27: when Drag returns, with success or with failure, the button it
\* pressed is not left held down.
C27_ButtonReleased == (pc = "done" /\ call.op = "drag") => ~ButtonHeld

\* C28: between the warp of a Click or DoubleClick and its button event the
\* pointer is at that request's coordinates, and no other request is being
\* handled: a connection that has arrived is not taken before the button
\* event has returned.
C28_ClickNotInterleaved ==
    (call.op \in {"click", "double_click"} /\ cmds # <<>>
        /\ cmds[1].out = "ok" /\ pc \in {"run", "wait"}) =>
        /\ pointer = <<cmds[1].x, cmds[1].y>>
        /\ ~ENABLED AcceptPOST

\* A second request has connected while a click is between its warp and
\* its button event.
C28_Witness ==
    /\ call = Call("click", <<JInt(5), JInt(7), JStr("left")>>)
    /\ pc = "wait"
    /\ Len(cmds) = 2
    /\ pointer = <<5, 7>>
    /\ backlog = 1

\* The requests a client may send next, listed routes with an empty body.
WellFormed ==
    {Req("GET", p, NoQuery, EmptyBody) : p \in GetRoutes}
    \cup {Req("POST", p, NoQuery, EmptyBody) : p \in PostRoutes}

\* The handler of a request, as far as its first backend call or its
\* response.
HandlerOf(r) ==
    IF r.method = "GET" THEN DoGet(r.path, r.query, session)
    ELSE DoPost(r.path, r.body)

\* C25: no request, however it ends, stops the server: the serving loop is
\* always accepting, handling or answering; a handler that has answered
\* returns; the loop then takes the next connection, whatever requests
\* failed before; and the handling of a request depends on that request
\* alone.
C25_ServerKeepsServing ==
    /\ pc \in {"idle", "run", "wait", "done"}
    /\ pc = "done" => ENABLED Finish
    /\ (pc = "idle" /\ backlog > 0) =>
          \A r \in WellFormed : ENABLED Handle(r, HandlerOf(r))
    /\ (pc # "idle" /\ req.method \in {"GET", "POST"}) =>
          /\ call = HandlerOf(req).call
          /\ HandlerOf(req).resp.kind # "none" => resp = HandlerOf(req).resp

\* GET /health answered 200 after a capture that failed.
C25_Witness ==
    /\ leaked > 0
    /\ pc = "done"
    /\ req.path = "/health"
    /\ resp.status = 200
    /\ resp.kind = "health"

Backends == {"xdotool", "wmctrl", "grim", "gnome-screenshot", "scrot"}

\* C26: the display handle is what construction left, present or absent,
\* and no step changes it; with it absent the server still takes requests
\* and every operation still runs an external-process backend.
C26_DisplaySetOnce ==
    /\ [](/\ display \in {"handle", "none"}
          /\ (pc = "idle" /\ backlog > 0) => ENABLED AcceptPOST
          /\ \A i \in 1 .. Len(cmds) : cmds[i].tool \in Backends)
    /\ [][display' = display]_vars

\* A drag that succeeded with no display handle.
C26_Witness ==
    /\ display = "none"
    /\ pc = "done"
    /\ call.op = "drag"
    /\ Len(cmds) = 4
    /\ resp.success

====
